---------------------------- MODULE Spec2Model ----------------------------
(***************************************************************************)
(* The pancake graph search of pancake_flipping.py (class Graph): prefix   *)
(* reversal, the vertex key codec, neighbour generation, the breadth-first *)
(* traversal with its visited map and FIFO queue, and the traceback.       *)
(*                                                                         *)
(* A vertex name is a sequence of non-zero integers (index 1 here is       *)
(* Python's index 0, the top of the stack).  A vertex key is the Python    *)
(* string "a:b:c", modelled as the sequence of its characters.  Python's   *)
(* None is the empty tuple and a present optional value x is <<x>>.        *)
(*                                                                         *)
(* BFS is one method; it is cut at the head of its while loop, one action  *)
(* per pass, so that the states between two passes can be stated.  A pass  *)
(* is atomic: the dequeue, the goal test, and either the traceback or the  *)
(* whole for loop over the neighbours.                                     *)
(*                                                                         *)
(* The Game of the same file owns one such graph.  Its state is the record *)
(* game; one action is one frame of the main loop with a click on a button *)
(* or on a pancake, and Game.__init__ runs the BFS above when the stack is *)
(* small enough.  Spec is the graph on its own, GameSpec the game that     *)
(* main starts.                                                            *)
(***************************************************************************)
EXTENDS Integers, Sequences, FiniteSets, TLC

\* ------------------------------------------------------------- bounds
\* Largest stack of an unsigned (regular) query.
MaxN == 3
\* Largest stack of a signed (burnt) query.
MaxBurntN == 2
\* Longest sequence of a query passed without any check.
MaxBadLen == 2
\* Most pancake clicks of a game since its stack was made or reset.
MaxMoves == 2
\* Most prefix reversals by which a shuffled order differs from the sorted one.
MaxShuffle == 1
\* Most pancakes, from the top, that the random signs turn burnt side up.
MaxSigns == 1
\* Largest pancake graph a game of the model searches.
MaxSearched == 720
\* Largest stack of a game in which the info screens are opened.
MaxInfoStack == 4
\* Largest stack whose worst case is computed from all its arrangements.
MaxWorstN == 4

VARIABLES
    game,           \* the Game object, None for a graph used on its own
    start,          \* Graph.start
    goal,           \* Graph.goal
    burnt,          \* Graph.burnt
    visited,        \* Graph.visited: key -> [name, dist, prev]
    fewest_moves,   \* Graph.fewest_moves: None or <<int>>
    best_path,      \* Graph.best_path: sequence of keys
    queue,          \* BFS local: the FIFO queue of keys
    vertex_key,     \* BFS local: the key dequeued last, None before the first
    neighbors,      \* BFS local: what find_neighbors returned last
    pc              \* "new" (constructed), "loop" (inside while), "done", "error"

vars == <<game, start, goal, burnt, visited, fewest_moves, best_path, queue,
          vertex_key, neighbors, pc>>

None == <<>>
Some(x) == <<x>>

Abs(x) == IF x < 0 THEN -x ELSE x

\* ------------------------------------------------------------- codec
Digit(d) == CASE d = 0 -> "0" [] d = 1 -> "1" [] d = 2 -> "2" [] d = 3 -> "3"
              [] d = 4 -> "4" [] d = 5 -> "5" [] d = 6 -> "6" [] d = 7 -> "7"
              [] d = 8 -> "8" [] d = 9 -> "9"

DigitValue(c) == CASE c = "0" -> 0 [] c = "1" -> 1 [] c = "2" -> 2 [] c = "3" -> 3
                   [] c = "4" -> 4 [] c = "5" -> 5 [] c = "6" -> 6 [] c = "7" -> 7
                   [] c = "8" -> 8 [] c = "9" -> 9

RECURSIVE Digits(_)
Digits(m) == IF m < 10 THEN <<Digit(m)>>
             ELSE Append(Digits(m \div 10), Digit(m % 10))

\* str(i) of a Python int
str(i) == IF i < 0 THEN <<"-">> \o Digits(-i) ELSE Digits(i)

RECURSIVE DigitsValue(_, _)
DigitsValue(cs, acc) == IF cs = <<>> THEN acc
                        ELSE DigitsValue(Tail(cs), 10 * acc + DigitValue(Head(cs)))

\* int(s) of a Python decimal string
int(cs) == IF Head(cs) = "-" THEN -DigitsValue(Tail(cs), 0)
           ELSE DigitsValue(cs, 0)

RECURSIVE join(_)
\* ":".join(parts)
join(parts) == IF parts = <<>> THEN <<>>
               ELSE IF Len(parts) = 1 THEN parts[1]
               ELSE parts[1] \o <<":">> \o join(Tail(parts))

RECURSIVE split(_, _, _)
\* s.split(":"): cur is the piece being read, acc the pieces already cut
split(cs, cur, acc) ==
    IF cs = <<>> THEN Append(acc, cur)
    ELSE IF Head(cs) = ":" THEN split(Tail(cs), <<>>, Append(acc, cur))
    ELSE split(Tail(cs), Append(cur, Head(cs)), acc)

\* Graph.make_vertex_key: [int, int, int] -> "str:str:str"
make_vertex_key(vertex_name) ==
    join([i \in 1..Len(vertex_name) |-> str(vertex_name[i])])

\* Graph.make_vertex_name: "str:str:str" -> [int, int, int]
make_vertex_name(key) ==
    LET parts == split(key, <<>>, <<>>)
    IN  [i \in 1..Len(parts) |-> int(parts[i])]

\* ------------------------------------------------------------- flip
RECURSIVE flip_loop_short_prefix(_, _, _, _, _)
\* flip_loop with the prefix test written i < n_to_flip
flip_loop_short_prefix(vertex_name, n_to_flip, b, i, new_vertex_name) ==
    IF i >= Len(vertex_name) THEN new_vertex_name
    ELSE flip_loop_short_prefix(vertex_name, n_to_flip, b, i + 1,
            Append(new_vertex_name,
                   IF i < n_to_flip
                   THEN vertex_name[(n_to_flip - i) + 1] * b
                   ELSE vertex_name[i + 1]))

RECURSIVE flip_loop_negates_all(_, _, _, _, _)
\* flip_loop with the sign applied past the prefix too
flip_loop_negates_all(vertex_name, n_to_flip, b, i, new_vertex_name) ==
    IF i >= Len(vertex_name) THEN new_vertex_name
    ELSE flip_loop_negates_all(vertex_name, n_to_flip, b, i + 1,
            Append(new_vertex_name,
                   IF i <= n_to_flip
                   THEN vertex_name[(n_to_flip - i) + 1] * b
                   ELSE vertex_name[i + 1] * b))

RECURSIVE flip_loop(_, _, _, _, _)
\* the for loop of Graph.flip; i is Python's 0-based loop index
flip_loop(vertex_name, n_to_flip, b, i, new_vertex_name) ==
    IF i >= Len(vertex_name) THEN new_vertex_name
    ELSE flip_loop(vertex_name, n_to_flip, b, i + 1,
            Append(new_vertex_name,
                   IF i <= n_to_flip
                   THEN vertex_name[(n_to_flip - i) + 1] * b
                   ELSE vertex_name[i + 1]))

\* flip with the sign applied in both modes
flip_always_negates(vertex_name, n_to_flip) ==
    flip_loop(vertex_name, n_to_flip, -1, 0, <<>>)

\* Graph.flip: prefix reversal of positions 0..n_to_flip, negated when burnt
flip(vertex_name, n_to_flip) ==
    flip_loop(vertex_name, n_to_flip, IF burnt THEN -1 ELSE 1, 0, <<>>)

\* find_neighbors with the loop started at prefix 1
find_neighbors_skips_top(key) ==
    LET vertex_name == visited[key].name
    IN  [i \in 1..(Len(vertex_name) - 1) |-> make_vertex_key(flip(vertex_name, i))]

\* Graph.find_neighbors: one key per prefix, in order, read from visited
find_neighbors(key) ==
    LET vertex_name == visited[key].name
    IN  [i \in 1..Len(vertex_name) |-> make_vertex_key(flip(vertex_name, i - 1))]


\* ------------------------------------------------------------- BFS
\* start_record with the distance counted from 1
start_record_from_one == [name |-> start, dist |-> 1, prev |-> None]

\* the record BFS stores for the start vertex
start_record == [name |-> start, dist |-> 0, prev |-> None]

\* new_record without the increment of the distance
new_record_same_dist(vis, key, i) ==
    [name |-> make_vertex_name(i), dist |-> vis[key].dist, prev |-> Some(key)]

\* the record BFS stores for a neighbour i first found from key
new_record(vis, key, i) ==
    [name |-> make_vertex_name(i), dist |-> vis[key].dist + 1, prev |-> Some(key)]

\* enqueue written queue.insert(0, i)
enqueue_front(q, i) == <<i>> \o q

\* queue.append(i)
enqueue(q, i) == Append(q, i)

\* dequeue written queue.pop(): the last key is taken
dequeue_last(q) == [key |-> q[Len(q)], rest |-> SubSeq(q, 1, Len(q) - 1)]

\* queue.pop(0): the key taken and what is left
dequeue(q) == [key |-> Head(q), rest |-> Tail(q)]

RECURSIVE expand_overwrites(_, _, _, _)
\* expand without the test of visited: every neighbour is recorded anew
expand_overwrites(nbrs, key, vis, q) ==
    IF nbrs = <<>> THEN [visited |-> vis, queue |-> q]
    ELSE LET i == Head(nbrs)
         IN  expand_overwrites(Tail(nbrs), key,
                 [k \in DOMAIN vis \cup {i} |->
                     IF k = i THEN new_record(vis, key, i) ELSE vis[k]],
                 enqueue(q, i))

RECURSIVE expand_enqueues_all(_, _, _, _)
\* expand with queue.append(i) outside the test of visited
expand_enqueues_all(nbrs, key, vis, q) ==
    IF nbrs = <<>> THEN [visited |-> vis, queue |-> q]
    ELSE LET i == Head(nbrs)
         IN  IF i \in DOMAIN vis
             THEN expand_enqueues_all(Tail(nbrs), key, vis, enqueue(q, i))
             ELSE expand_enqueues_all(Tail(nbrs), key,
                         vis @@ (i :> new_record(vis, key, i)),
                         enqueue(q, i))

RECURSIVE expand(_, _, _, _)
\* the for loop over find_neighbors(key): an unvisited neighbour is recorded
\* and enqueued, a visited one is skipped
expand(nbrs, key, vis, q) ==
    IF nbrs = <<>> THEN [visited |-> vis, queue |-> q]
    ELSE LET i == Head(nbrs)
         IN  IF i \in DOMAIN vis
             THEN expand(Tail(nbrs), key, vis, q)
             ELSE expand(Tail(nbrs), key,
                         vis @@ (i :> new_record(vis, key, i)),
                         enqueue(q, i))

RECURSIVE traceback_loop_appending(_, _)
\* traceback_loop with sequence.append(i) for sequence.insert(0, i)
traceback_loop_appending(i, sequence) ==
    IF i = None THEN [ok |-> TRUE, path |-> sequence]
    ELSE IF i[1] \notin DOMAIN visited THEN [ok |-> FALSE, path |-> sequence]
    ELSE traceback_loop_appending(visited[i[1]].prev, Append(sequence, i[1]))

RECURSIVE traceback_loop_stops_at_missing(_, _)
\* traceback_loop reading visited.get(i): a missing key is inserted like any
\* other and ends the walk
traceback_loop_stops_at_missing(i, sequence) ==
    IF i = None THEN [ok |-> TRUE, path |-> sequence]
    ELSE IF i[1] \notin DOMAIN visited
         THEN [ok |-> TRUE, path |-> <<i[1]>> \o sequence]
    ELSE traceback_loop_stops_at_missing(visited[i[1]].prev, <<i[1]>> \o sequence)

RECURSIVE traceback_loop(_, _)
\* the while loop of Graph.traceback; a key missing from visited is a KeyError
traceback_loop(i, sequence) ==
    IF i = None THEN [ok |-> TRUE, path |-> sequence]
    ELSE IF i[1] \notin DOMAIN visited THEN [ok |-> FALSE, path |-> sequence]
    ELSE traceback_loop(visited[i[1]].prev, <<i[1]>> \o sequence)

\* Graph.traceback
traceback == traceback_loop(Some(make_vertex_key(goal)), <<>>)

\* ------------------------------------------------------------- inputs
\* every value of the sequence, as a set
Values(v) == {v[i] : i \in 1..Len(v)}

\* a permutation of 1..n in absolute value, all positive unless signed
ValidVertex(v, b) ==
    /\ Len(v) >= 1
    /\ {Abs(x) : x \in Values(v)} = 1..Len(v)
    /\ \A i, j \in 1..Len(v) : Abs(v[i]) = Abs(v[j]) => i = j
    /\ b \/ \A i \in 1..Len(v) : v[i] > 0

ValidQuery(s, g, b) ==
    /\ Len(s) = Len(g)
    /\ ValidVertex(s, b)
    /\ ValidVertex(g, b)

NonZero(n) == ((-n)..n) \ {0}

\* the valid arrangements of n pancakes in mode b
Arrangements(n, b) == {v \in [1..n -> NonZero(n)] : ValidVertex(v, b)}

\* values of a sequence passed without any check: -1 is a sign the unsigned
\* mode does not allow, 2 exceeds a length of 1, and both can repeat
AnyValues == {-1, 2}

\* the sequences a caller can pass without any check
AnySequences == UNION {[1..n -> AnyValues] : n \in 1..MaxBadLen}

\* Graph.__init__(start, goal, burnt): the queries the model runs.  Unchecked
\* ones in both modes; unsigned ones between any two arrangements; signed
\* ones from any arrangement to any arrangement with every burnt side down.
Queries ==
    {<<s, g, b>> : s \in AnySequences, g \in AnySequences, b \in BOOLEAN}
    \cup UNION {Arrangements(n, FALSE) \X Arrangements(n, FALSE) \X {FALSE}
                    : n \in 1..MaxN}
    \cup UNION {Arrangements(n, TRUE) \X Arrangements(n, FALSE) \X {TRUE}
                    : n \in 1..MaxBurntN}

\* ------------------------------------------------------------- actions
\* Graph.__init__
Init ==
    /\ game = None
    /\ \E q \in Queries : start = q[1] /\ goal = q[2] /\ burnt = q[3]
    /\ visited = <<>>
    /\ fewest_moves = None
    /\ best_path = <<>>
    /\ queue = <<>>
    /\ vertex_key = None
    /\ neighbors = <<>>
    /\ pc = "new"

\* BFS_begin with the query checked first, a malformed one raising
BFS_begin_validating ==
    /\ pc = "new"
    /\ IF ValidQuery(start, goal, burnt)
       THEN /\ visited' = (make_vertex_key(start) :> start_record)
            /\ queue' = enqueue(<<>>, make_vertex_key(start))
            /\ pc' = "loop"
       ELSE /\ pc' = "error"
            /\ UNCHANGED <<visited, queue>>
    /\ UNCHANGED <<game, start, goal, burnt, fewest_moves, best_path, vertex_key, neighbors>>

\* BFS up to the while loop: visited cleared, start recorded and enqueued
BFS_begin ==
    /\ pc = "new"
    /\ visited' = (make_vertex_key(start) :> start_record)
    /\ queue' = enqueue(<<>>, make_vertex_key(start))
    /\ pc' = "loop"
    /\ UNCHANGED <<game, start, goal, burnt, fewest_moves, best_path, vertex_key, neighbors>>

\* BFS_goal with the else dropped: the goal is expanded like any vertex
BFS_goal_expands ==
    /\ pc = "loop"
    /\ queue # <<>>
    /\ dequeue(queue).key = make_vertex_key(goal)
    /\ LET d == dequeue(queue)
           t == traceback
           nbrs == find_neighbors(d.key)
           r == expand(nbrs, d.key, visited, d.rest)
       IN  /\ vertex_key' = Some(d.key)
           /\ neighbors' = nbrs
           /\ visited' = r.visited
           /\ queue' = r.queue
           /\ fewest_moves' = Some(visited[d.key].dist)
           /\ IF t.ok
              THEN best_path' = t.path /\ pc' = pc
              ELSE best_path' = best_path /\ pc' = "error"
    /\ UNCHANGED <<game, start, goal, burnt>>

\* BFS_goal reading queue[0] without removing it
BFS_goal_keeps ==
    /\ pc = "loop"
    /\ queue # <<>>
    /\ dequeue(queue).key = make_vertex_key(goal)
    /\ LET d == dequeue(queue)
           t == traceback
       IN  /\ vertex_key' = Some(d.key)
           /\ queue' = queue
           /\ fewest_moves' = Some(visited[d.key].dist)
           /\ IF t.ok
              THEN best_path' = t.path /\ pc' = pc
              ELSE best_path' = best_path /\ pc' = "error"
    /\ UNCHANGED <<game, start, goal, burnt, visited, neighbors>>

\* one pass of the while loop that dequeues the goal: distance and path are set
BFS_goal ==
    /\ pc = "loop"
    /\ queue # <<>>
    /\ dequeue(queue).key = make_vertex_key(goal)
    /\ LET d == dequeue(queue)
           t == traceback
       IN  /\ vertex_key' = Some(d.key)
           /\ queue' = d.rest
           /\ fewest_moves' = Some(visited[d.key].dist)
           /\ IF t.ok
              THEN best_path' = t.path /\ pc' = pc
              ELSE best_path' = best_path /\ pc' = "error"
    /\ UNCHANGED <<game, start, goal, burnt, visited, neighbors>>

\* one pass of the while loop that dequeues another vertex: it is expanded
BFS_expand ==
    /\ pc = "loop"
    /\ queue # <<>>
    /\ dequeue(queue).key # make_vertex_key(goal)
    /\ LET d == dequeue(queue)
           nbrs == find_neighbors(d.key)
           r == expand(nbrs, d.key, visited, d.rest)
       IN  /\ vertex_key' = Some(d.key)
           /\ neighbors' = nbrs
           /\ visited' = r.visited
           /\ queue' = r.queue
    /\ UNCHANGED <<game, start, goal, burnt, fewest_moves, best_path, pc>>

\* BFS_end raising when no path was found
BFS_end_raises ==
    /\ pc = "loop"
    /\ queue = <<>>
    /\ pc' = IF fewest_moves = None THEN "error" ELSE "done"
    /\ UNCHANGED <<game, start, goal, burnt, visited, fewest_moves, best_path, queue,
                   vertex_key, neighbors>>

\* the while loop ends on an empty queue and BFS returns
BFS_end ==
    /\ pc = "loop"
    /\ queue = <<>>
    /\ pc' = "done"
    /\ UNCHANGED <<game, start, goal, burnt, visited, fewest_moves, best_path, queue,
                   vertex_key, neighbors>>

Next == BFS_begin \/ BFS_goal \/ BFS_expand \/ BFS_end

Spec == Init /\ [][Next]_vars

\* the condition under which BFS_expand can be taken; the pass always
\* changes the state, for it dequeues a key that is never enqueued again
ExpandReady ==
    /\ pc = "loop"
    /\ queue # <<>>
    /\ dequeue(queue).key # make_vertex_key(goal)

\* BFS runs on: a step that stays possible is eventually taken.  For
\* BFS_expand the weak fairness is written out, with ExpandReady for
\* ENABLED <<BFS_expand>>_vars.
FairSpec ==
    /\ Spec
    /\ WF_vars(BFS_begin)
    /\ WF_vars(BFS_goal)
    /\ WF_vars(BFS_end)
    /\ ([]<>(~ExpandReady) \/ []<><<BFS_expand>>_vars)

\* best_path = traceback() called by a user of the graph, before or after BFS;
\* the KeyError of a missing key leaves best_path as it was
traceback_call ==
    /\ pc \in {"new", "done"}
    /\ LET t == traceback
       IN  IF t.ok
           THEN best_path' = t.path /\ pc' = pc
           ELSE best_path' = best_path /\ pc' = "error"
    /\ UNCHANGED <<game, start, goal, burnt, visited, fewest_moves, queue,
                   vertex_key, neighbors>>

TracebackNext == Next \/ traceback_call

\* a graph whose user may call traceback itself
TracebackSpec == Init /\ [][TracebackNext]_vars

RECURSIVE Factorial(_)
Factorial(n) == IF n = 0 THEN 1 ELSE n * Factorial(n - 1)

\* the number of arrangements of n pancakes in mode b: n!, or n! * 2^n signed
NumArrangements(n, b) == Factorial(n) * (IF b THEN 2 ^ n ELSE 1)

\* ------------------------------------------------------------- game
\* DIAMETER with 4 for the 3 of three regular pancakes
DIAMETER_four_for_three ==
    [n \in 1..12 |->
        [regular |-> <<0, 1, 4, 4, 5, 7, 8, 9, 10, 11, 13, 14>>[n],
         burned  |-> <<1, 4, 6, 8, 10, 12, 14, 15, 17, 18, 19, 21>>[n]]]

\* DIAMETER: the most flips any stack of n pancakes needs
DIAMETER ==
    [n \in 1..12 |->
        [regular |-> <<0, 1, 3, 4, 5, 7, 8, 9, 10, 11, 13, 14>>[n],
         burned  |-> <<1, 4, 6, 8, 10, 12, 14, 15, 17, 18, 19, 21>>[n]]]

\* len(INFO_TEXT)
InfoLen == 5

\* list(range(1, n + 1))
range1(n) == [i \in 1..n |-> i]

\* v with its first k entries in reverse order
PrefixReversed(v, k) ==
    [i \in 1..Len(v) |-> IF i <= k THEN v[k + 1 - i] ELSE v[i]]

RECURSIVE Shuffled(_, _)
\* random.shuffle(order): the orders at most d prefix reversals from sorted
Shuffled(n, d) ==
    IF d = 0 THEN {range1(n)}
    ELSE LET S == Shuffled(n, d - 1)
         IN  S \cup {PrefixReversed(v, k) : v \in S, k \in 1..n}

\* random.choices([-1,1], k=n) when burnt, [1]*n otherwise: the signs that
\* turn the top k pancakes burnt side up
Signs(n, b) ==
    IF b THEN {[i \in 1..n |-> IF i <= k THEN -1 ELSE 1] : k \in 0..MaxSigns}
    ELSE {[i \in 1..n |-> 1]}

\* one pass of the while loop of Game.__init__: order and signs multiplied
Scrambled(n, b) ==
    {[i \in 1..n |-> order[i] * signs[i]] :
        order \in Shuffled(n, MaxShuffle), signs \in Signs(n, b)}

\* StartOrders without the while: the first draw is taken as it is
StartOrders_first_draw(n, b) == Scrambled(n, b)

\* the values start_order can have when the while loop of Game.__init__ ends
StartOrders(n, b) == {s \in Scrambled(n, b) : s # range1(n)}

\* Pancake.__init__: one side of a pancake
Pancake(n, loc, side, b) == [n |-> n, loc |-> loc, side |-> side, burnt |-> b]

\* Game.make_pancake_stack: the top sides, then the bottom sides
make_pancake_stack(order, n, b) ==
    [i \in 1..(2 * n) |->
        IF i <= n THEN Pancake(order[i], i - 1, 1, b)
        ELSE Pancake(order[i - n], i - n - 1, -1, b)]

\* update with the sign of n left as it is
update_keeps_n(p, n_to_flip) ==
    IF p.loc < n_to_flip
    THEN [p EXCEPT !.loc = n_to_flip - p.loc - 1,
                   !.side = -p.side]
    ELSE p

\* Pancake.update
update(p, n_to_flip) ==
    IF p.loc < n_to_flip
    THEN [p EXCEPT !.n = IF p.burnt THEN -p.n ELSE p.n,
                   !.loc = n_to_flip - p.loc - 1,
                   !.side = -p.side]
    ELSE p

RECURSIVE refresh(_, _, _)
\* run_logic: current_order[pancake.loc] = pancake.n for each sprite from the i-th
refresh(order, pancake_list, i) ==
    IF i > Len(pancake_list) THEN order
    ELSE refresh([order EXCEPT ![pancake_list[i].loc + 1] = pancake_list[i].n],
                 pancake_list, i + 1)

\* BFS_eligible with one ceiling for both modes
BFS_eligible_one_ceiling(g) == g.stack_size < 8

\* Game.BFS_eligible
BFS_eligible(g) ==
    (~g.burnt /\ g.stack_size < 8) \/ (g.burnt /\ g.stack_size < 6)

\* BFS_or_main with the search never run
BFS_or_main_skips(g) == "main"

\* if self.BFS_eligible(): self.pancake_graph.BFS(): where a new game goes
\* on, into BFS or straight back to the main loop
BFS_or_main(g) == IF BFS_eligible(g) THEN "BFS" ELSE "main"

\* the attributes Game.__init__ sets, for the start_order its loop ended
\* with; at is where the program is: in __init__ with the graph just made
\* ("init"), in the BFS of __init__, or in the main loop between two frames
Game_fields(stack_size, b, start_order) ==
    [at |-> "init",
     show_info |-> FALSE, info_item |-> -1, moves |-> 0,
     stack_size |-> stack_size, burnt |-> b, game_over |-> FALSE,
     goal_order |-> range1(stack_size),
     start_order |-> start_order,
     current_order |-> start_order,
     pancake_list |-> make_pancake_stack(start_order, stack_size, b)]

\* the graphs the model lets a game search: all that are not searched anyway
Searchable(stack_size, b) ==
    LET g == [stack_size |-> stack_size, burnt |-> b]
    IN  BFS_eligible(g) => NumArrangements(stack_size, b) <= MaxSearched

\* Game.__init__(stack_size, b, font) up to the test of BFS_eligible
Game_init(stack_size, b) ==
    /\ Searchable(stack_size, b)
    /\ \E s \in StartOrders(stack_size, b) :
          /\ game' = Game_fields(stack_size, b, s)
          /\ start' = s
          /\ goal' = range1(stack_size)
    /\ burnt' = b
    /\ visited' = <<>>
    /\ fewest_moves' = None
    /\ best_path' = <<>>
    /\ queue' = <<>>
    /\ vertex_key' = None
    /\ neighbors' = <<>>
    /\ pc' = "new"

\* main: Game(stack_size=4, burnt=True, font=font), up to the test of
\* BFS_eligible
GameInit ==
    /\ \E s \in StartOrders(4, TRUE) :
          /\ game = Game_fields(4, TRUE, s)
          /\ start = s
          /\ goal = range1(4)
    /\ burnt = TRUE
    /\ visited = <<>>
    /\ fewest_moves = None
    /\ best_path = <<>>
    /\ queue = <<>>
    /\ vertex_key = None
    /\ neighbors = <<>>
    /\ pc = "new"

\* the program is in the main loop, Game.__init__ having returned
Ready == game.at = "main"

\* Game.__init__: if self.BFS_eligible(), to BFS or back to the main loop
Game_if_eligible ==
    /\ game.at = "init"
    /\ game' = [game EXCEPT !.at = BFS_or_main(game)]
    /\ UNCHANGED <<start, goal, burnt, visited, fewest_moves, best_path, queue,
                   vertex_key, neighbors, pc>>

\* Game.__init__: self.pancake_graph.BFS(), step by step
Game_BFS == game.at = "BFS" /\ Next

\* Game.__init__ returns after BFS
Game_return ==
    /\ game.at = "BFS"
    /\ pc = "done"
    /\ game' = [game EXCEPT !.at = "main"]
    /\ UNCHANGED <<start, goal, burnt, visited, fewest_moves, best_path, queue,
                   vertex_key, neighbors, pc>>

\* run_logic after the buttons: pancakes_to_flip pancakes are flipped,
\* current_order is refreshed and compared with goal_order
run_logic_flip(g, pancakes_to_flip) ==
    LET pancake_list == [i \in 1..Len(g.pancake_list) |->
                            update(g.pancake_list[i], pancakes_to_flip)]
        current_order == refresh(g.current_order, pancake_list, 1)
    IN  [g EXCEPT !.pancake_list = pancake_list,
                  !.current_order = current_order,
                  !.game_over = IF current_order = g.goal_order THEN TRUE ELSE @]

graph_vars == <<start, goal, burnt, visited, fewest_moves, best_path, queue,
                vertex_key, neighbors, pc>>

\* a frame with a click while game_over: process_events starts a new game
click_restart ==
    /\ Ready
    /\ game.game_over
    /\ Game_init(game.stack_size, game.burnt)

\* click_pancake without the guard of process_events: a click after the win
\* flips like any other
click_pancake_after_win ==
    /\ Ready
    /\ ~game.show_info
    /\ game.moves < MaxMoves
    /\ \E i \in 1..Len(game.pancake_list) :
          game' = run_logic_flip([game EXCEPT !.moves = @ + 1],
                                 game.pancake_list[i].loc + 1)
    /\ UNCHANGED <<start, goal, burnt, visited, fewest_moves, best_path, queue,
                   vertex_key, neighbors, pc>>

\* click_pancake without self.moves += 1
click_pancake_uncounted ==
    /\ Ready
    /\ ~game.game_over
    /\ ~game.show_info
    /\ game.moves < MaxMoves
    /\ \E i \in 1..Len(game.pancake_list) :
          game' = run_logic_flip(game, game.pancake_list[i].loc + 1)
    /\ UNCHANGED <<start, goal, burnt, visited, fewest_moves, best_path, queue,
                   vertex_key, neighbors, pc>>

\* a frame with a click on a side of a pancake: that pancake and those above
\* it are flipped and the move counted
click_pancake ==
    /\ Ready
    /\ ~game.game_over
    /\ ~game.show_info
    /\ game.moves < MaxMoves
    /\ \E i \in 1..Len(game.pancake_list) :
          game' = run_logic_flip([game EXCEPT !.moves = @ + 1],
                                 game.pancake_list[i].loc + 1)
    /\ UNCHANGED graph_vars

\* reset_stack without the copy of start_order: the pancakes stay
reset_stack_keeps_order ==
    /\ Ready
    /\ ~game.game_over
    /\ ~game.show_info
    /\ game' = run_logic_flip([game EXCEPT !.moves = 0], 0)
    /\ UNCHANGED <<start, goal, burnt, visited, fewest_moves, best_path, queue,
                   vertex_key, neighbors, pc>>

\* a frame with a click on b1: Game.reset_stack, then the rest of run_logic
reset_stack ==
    /\ Ready
    /\ ~game.game_over
    /\ ~game.show_info
    /\ game' = run_logic_flip(
                  [game EXCEPT !.moves = 0,
                               !.current_order = game.start_order,
                               !.pancake_list = make_pancake_stack(
                                   game.start_order, game.stack_size, game.burnt)],
                  0)
    /\ UNCHANGED graph_vars

\* a frame with a click on b2: Game.toggle_burntness
toggle_burntness ==
    /\ Ready
    /\ ~game.game_over
    /\ ~game.show_info
    /\ Game_init(IF game.stack_size > 2 THEN game.stack_size ELSE 2, ~game.burnt)

\* add_pancake without the min: the stack grows past 12
add_pancake_uncapped ==
    /\ Ready
    /\ ~game.game_over
    /\ ~game.show_info
    /\ Game_init(game.stack_size + 1, game.burnt)

\* a frame with a click on b3: Game.add_pancake
add_pancake ==
    /\ Ready
    /\ ~game.game_over
    /\ ~game.show_info
    /\ Game_init(IF game.stack_size + 1 < 12 THEN game.stack_size + 1 ELSE 12,
                 game.burnt)

\* a frame with a click on b4: Game.remove_pancake
remove_pancake ==
    /\ Ready
    /\ ~game.game_over
    /\ ~game.show_info
    /\ IF game.burnt
       THEN Game_init(IF game.stack_size - 1 > 1 THEN game.stack_size - 1 ELSE 1,
                      game.burnt)
       ELSE Game_init(IF game.stack_size - 1 > 2 THEN game.stack_size - 1 ELSE 2,
                      game.burnt)

\* a frame with a click on b5: Game.display_info, then the rest of run_logic
display_info ==
    /\ Ready
    /\ ~game.game_over
    /\ ~game.show_info
    /\ game.stack_size <= MaxInfoStack
    /\ game' = run_logic_flip([game EXCEPT !.info_item = 0, !.show_info = TRUE], 0)
    /\ UNCHANGED graph_vars

\* a frame with a click on the info button b1: Game.close_info
close_info ==
    /\ Ready
    /\ ~game.game_over
    /\ game.show_info
    /\ game' = [game EXCEPT !.show_info = FALSE]
    /\ UNCHANGED graph_vars

\* a frame with a click on the info button b2: Game.next_info
next_info ==
    /\ Ready
    /\ ~game.game_over
    /\ game.show_info
    /\ game' = [game EXCEPT !.info_item = @ + 1,
                            !.show_info = IF game.info_item + 1 = InfoLen
                                          THEN FALSE ELSE @]
    /\ UNCHANGED graph_vars

\* a frame with a click on the info button b3: Game.previous_info
previous_info ==
    /\ Ready
    /\ ~game.game_over
    /\ game.show_info
    /\ game' = [game EXCEPT !.info_item = @ - 1,
                            !.show_info = IF game.info_item - 1 = -1
                                          THEN FALSE ELSE @]
    /\ UNCHANGED graph_vars

GameNext ==
    \/ Game_if_eligible
    \/ Game_BFS
    \/ Game_return
    \/ click_restart
    \/ click_pancake
    \/ reset_stack
    \/ toggle_burntness
    \/ add_pancake
    \/ remove_pancake
    \/ display_info
    \/ close_info
    \/ next_info
    \/ previous_info

\* main: a game made for 4 burnt pancakes and played frame by frame
GameSpec == GameInit /\ [][GameNext]_vars

\* display_frame: the number shown as fewest possible moves, or as the most
\* moves the stack can need
shown_moves ==
    IF BFS_eligible(game) THEN fewest_moves
    ELSE IF game.burnt THEN Some(DIAMETER[game.stack_size].burned)
    ELSE Some(DIAMETER[game.stack_size].regular)

\* ------------------------------------------------------------- reference
\* the arrangements one prefix reversal away from a member of R; the members
\* of blocked are not flipped
OneMoreFlip(R, blocked) ==
    R \cup UNION {{flip(v, k) : k \in 0..(Len(v) - 1)} : v \in R \ blocked}

RECURSIVE FlipsFrom(_, _, _, _)
\* R holds what at most d flips reach and D the least number of flips for
\* each member of R: the least number of flips for everything reachable
FlipsFrom(R, D, d, blocked) ==
    LET R2 == OneMoreFlip(R, blocked)
    IN  IF R2 = R THEN D
        ELSE FlipsFrom(R2, [v \in R2 |-> IF v \in R THEN D[v] ELSE d + 1],
                       d + 1, blocked)

\* for every arrangement reachable from s, the minimum number of prefix
\* reversals that transform s into it
AllMinFlips(s) == FlipsFrom({s}, [v \in {s} |-> 0], 0, {})

\* the same, over the sequences of flips that never flip the arrangement x
AllMinFlipsAvoiding(s, x) == FlipsFrom({s}, [v \in {s} |-> 0], 0, {x})

\* the entry of g in such a table: None when g is not reachable
Entry(D, g) == IF g \in DOMAIN D THEN Some(D[g]) ELSE None

\* the minimum number of prefix reversals that transform s into g
MinFlips(s, g) == Entry(AllMinFlips(s), g)

start_key == make_vertex_key(start)
goal_key == make_vertex_key(goal)
Finished == pc = "done"

\* ------------------------------------------------------------- claims
\* C1: for a valid start and goal of the same length and mode, once BFS has
\* finished, fewest_moves is the minimum number of prefix reversals that
\* transform start into goal.
C1_FewestMovesIsMinimum ==
    (Finished /\ ValidQuery(start, goal, burnt))
        => fewest_moves = MinFlips(start, goal)

C1_Witness ==
    /\ Finished
    /\ ValidQuery(start, goal, burnt)
    /\ Len(start) = 3
    /\ fewest_moves = Some(3)

\* C2: after a successful search best_path starts with start's key, ends
\* with goal's key, has fewest_moves + 1 elements, its i-th element has
\* recorded distance i, and each element is one flip away from the one
\* before it.
C2_BestPathIsAShortestPath ==
    fewest_moves # None =>
        /\ Len(best_path) = fewest_moves[1] + 1
        /\ best_path[1] = start_key
        /\ best_path[Len(best_path)] = goal_key
        /\ \A i \in 1..Len(best_path) :
              /\ best_path[i] \in DOMAIN visited
              /\ visited[best_path[i]].dist = i - 1
        /\ \A i \in 1..(Len(best_path) - 1) :
              LET a == make_vertex_name(best_path[i])
              IN  \E k \in 0..(Len(a) - 1) :
                      best_path[i + 1] = make_vertex_key(flip(a, k))

C2_Witness ==
    /\ fewest_moves = Some(3)
    /\ Len(best_path) = 4
    /\ Finished

\* C3 as stated: once BFS has finished, every recorded dist is the vertex's
\* distance from start.
C3_EveryDistIsTheDistance ==
    (Finished /\ ValidQuery(start, goal, burnt)) =>
        LET D == AllMinFlips(start)
        IN  \A key \in DOMAIN visited :
                Some(visited[key].dist) = Entry(D, visited[key].name)

\* C3 amended: once BFS has finished, every recorded dist is the length of a
\* shortest sequence of flips from start to the vertex that never flips the
\* goal arrangement (the goal is not expanded); it is the distance from
\* start for the goal and for every vertex recorded no farther than the goal.
C3_EveryDistAvoidsGoal ==
    (Finished /\ ValidQuery(start, goal, burnt)) =>
        LET D == AllMinFlips(start)
            A == AllMinFlipsAvoiding(start, goal)
        IN  \A key \in DOMAIN visited :
                /\ Some(visited[key].dist) = Entry(A, visited[key].name)
                /\ (fewest_moves # None /\ visited[key].dist <= fewest_moves[1])
                       => Some(visited[key].dist) = Entry(D, visited[key].name)

C3_Witness ==
    /\ Finished
    /\ ValidQuery(start, goal, burnt)
    /\ \E key \in DOMAIN visited :
           /\ visited[key].dist = 4
           /\ MinFlips(start, visited[key].name) = Some(2)

\* C4: from the moment BFS has recorded the start, the start has dist 0 and
\* no prev, and every other record has a prev that is recorded, is one
\* nearer, and has the record's key among its neighbours.
C4_PrevIsOneNearer ==
    pc # "new" =>
        /\ start_key \in DOMAIN visited
        /\ visited[start_key].dist = 0
        /\ visited[start_key].prev = None
        /\ \A key \in DOMAIN visited \ {start_key} :
              LET p == visited[key].prev
              IN  /\ p # None
                  /\ p[1] \in DOMAIN visited
                  /\ visited[key].dist = visited[p[1]].dist + 1
                  /\ LET r == find_neighbors(p[1])
                     IN  \E i \in 1..Len(r) : r[i] = key

C4_Witness ==
    /\ pc = "loop"
    /\ queue # <<>>
    /\ \E key \in DOMAIN visited : visited[key].dist = 2

\* C5: a search from a valid vertex to itself ends with fewest_moves = 0 and
\* best_path holding that vertex's key alone.
C5_TrivialQuery ==
    (Finished /\ ValidQuery(start, goal, burnt) /\ start = goal) =>
        /\ fewest_moves = Some(0)
        /\ best_path = <<start_key>>

C5_Witness ==
    /\ Finished
    /\ ValidQuery(start, goal, burnt)
    /\ start = goal
    /\ burnt
    /\ Len(start) = 2

\* C6 as stated: a malformed query fails before any vertex is put into
\* visited or the queue.
C6_MalformedQueryIsRejected ==
    ~ValidQuery(start, goal, burnt) =>
        /\ DOMAIN visited = {}
        /\ queue = <<>>
        /\ pc \in {"new", "error"}

\* C6 amended: a malformed query of integer sequences is not checked: BFS
\* records start as given with dist 0, raises no error, and sets
\* fewest_moves only when goal's key has been recorded.
C6_MalformedQueryIsTraversed ==
    (~ValidQuery(start, goal, burnt) /\ pc # "new") =>
        /\ pc # "error"
        /\ start_key \in DOMAIN visited
        /\ visited[start_key] = [name |-> start, dist |-> 0, prev |-> None]
        /\ fewest_moves # None => goal_key \in DOMAIN visited

C6_Witness ==
    /\ ~ValidQuery(start, goal, burnt)
    /\ Finished
    /\ Len(start) # Len(goal)
    /\ Cardinality(DOMAIN visited) >= 2

\* C7: BFS raises no error, and when it finishes without goal's key ever
\* recorded (and so never dequeued) fewest_moves is still None and
\* best_path still empty.
C7_UnreachableGoalIsAbsent ==
    /\ pc # "error"
    /\ (Finished /\ goal_key \notin DOMAIN visited) =>
           /\ fewest_moves = None
           /\ best_path = <<>>

C7_Witness ==
    /\ Finished
    /\ goal_key \notin DOMAIN visited
    /\ Cardinality(DOMAIN visited) >= 2

\* the keys a state names: start's once recorded and the one dequeued last
KnownKeys ==
    (IF pc = "new" THEN {} ELSE {start_key})
    \cup (IF vertex_key = None THEN {} ELSE {vertex_key[1]})

\* the vertices a state names: start, goal and the vertex dequeued last
KnownVertices == {start, goal} \cup {visited[key].name : key \in KnownKeys}

\* the sign flip applies to the prefix
Sign == IF burnt THEN -1 ELSE 1

\* C8: flipping the same prefix twice gives the vertex back, for every
\* vertex (start, goal, and each vertex when it is dequeued) and every prefix
\* index 0..n-1, in both modes.
C8_FlipIsAnInvolution ==
    \A v \in KnownVertices : \A k \in 0..(Len(v) - 1) :
        flip(flip(v, k), k) = v

C8_Witness ==
    /\ burnt
    /\ Len(start) = 2
    /\ vertex_key # None
    /\ \E v \in KnownVertices :
           Len(v) = 2 /\ flip(v, 1) # v /\ flip(v, 0) # v

\* C9: for a vertex v (start, goal, and each vertex when it is dequeued),
\* flip(v, k) has the length of v, holds s * v[k - i] at every position
\* i <= k (s = -1 when burnt, 1 otherwise) and v[i] at every position i > k;
\* the recorded name that was flipped still matches its key.
C9_FlipReversesThePrefixOnly ==
    /\ \A v \in KnownVertices : \A k \in 0..(Len(v) - 1) :
          LET w == flip(v, k)
          IN  /\ Len(w) = Len(v)
              /\ \A i \in 0..(Len(v) - 1) :
                    w[i + 1] = IF i <= k THEN Sign * v[(k - i) + 1] ELSE v[i + 1]
    /\ \A key \in KnownKeys : make_vertex_key(visited[key].name) = key

C9_Witness ==
    /\ burnt
    /\ Len(start) = 2
    /\ neighbors # <<>>
    /\ \E v \in KnownVertices :
           Len(v) = 2 /\ flip(v, 0)[1] = -v[1] /\ flip(v, 0)[2] = v[2]

\* C10: for a recorded vertex v of length n (the start, and each vertex when
\* it is dequeued), find_neighbors gives exactly n keys, the i-th the key of
\* flip(v, i), repeated keys kept; the first is v's own key when unsigned and
\* v with its top negated when signed.  The list BFS iterated over last is
\* that of the vertex it expanded last.
C10_NeighborsOnePerPrefix ==
    /\ \A key \in KnownKeys :
          LET v == visited[key].name
              r == find_neighbors(key)
          IN  /\ Len(r) = Len(v)
              /\ \A i \in 0..(Len(v) - 1) : r[i + 1] = make_vertex_key(flip(v, i))
              /\ ~burnt => r[1] = key
              /\ burnt => make_vertex_name(r[1]) = [v EXCEPT ![1] = -v[1]]
    /\ (vertex_key # None /\ vertex_key[1] # goal_key) =>
           /\ Len(neighbors) = Len(visited[vertex_key[1]].name)
           /\ \A i \in 1..Len(neighbors) :
                 neighbors[i] =
                     make_vertex_key(flip(visited[vertex_key[1]].name, i - 1))

C10_Witness ==
    /\ ~burnt
    /\ Len(neighbors) = 3
    /\ neighbors[1] = vertex_key[1]
    /\ neighbors[2] # neighbors[3]

\* the keys taken off the queue so far: each recorded key was enqueued once
Dequeued == Cardinality(DOMAIN visited) - Len(queue)

\* C14: for every valid start BFS terminates: the queue is eventually empty
\* and the search done, and no more than n! vertices (n! * 2^n when signed)
\* are ever recorded or dequeued.
C14_BFSTerminates ==
    /\ ValidVertex(start, burnt) => <>(Finished /\ queue = <<>>)
    /\ [](ValidVertex(start, burnt) =>
             /\ Cardinality(DOMAIN visited) <= NumArrangements(Len(start), burnt)
             /\ Dequeued <= NumArrangements(Len(start), burnt))

C14_Witness ==
    /\ Finished
    /\ queue = <<>>
    /\ ValidVertex(start, burnt)
    /\ Len(start) = 3
    /\ Dequeued = NumArrangements(3, burnt)

\* C15: traceback called while the goal's key is not in visited fails with
\* an error; called while it is there, it returns a path that begins at the
\* start; BFS calls it only with the goal's key in visited and never fails.
C15_TracebackNeedsTheGoalVisited ==
    [][/\ traceback_call =>
              IF goal_key \in DOMAIN visited
              THEN /\ pc' # "error"
                   /\ best_path'[1] = start_key
                   /\ best_path'[Len(best_path')] = goal_key
              ELSE pc' = "error"
       /\ BFS_goal =>
              /\ goal_key \in DOMAIN visited
              /\ pc' # "error"
              /\ best_path'[1] = start_key
              /\ best_path'[Len(best_path')] = goal_key]_vars

C15_Witness ==
    /\ pc = "error"
    /\ goal_key \notin DOMAIN visited
    /\ visited # <<>>

\* the keys of a sequence, as a set
Keys(q) == {q[i] : i \in 1..Len(q)}

NoRepeat(q) == \A i, j \in 1..Len(q) : q[i] = q[j] => i = j

\* C16: every record of visited stays as it is, so the keys of visited only
\* grow; the keys a step appends to the queue are the keys it adds to
\* visited, each once; so no key is recorded or enqueued twice.
C16_RecordedAndEnqueuedOnce ==
    /\ [](NoRepeat(queue) /\ Keys(queue) \subseteq DOMAIN visited)
    /\ [][LET old == IF queue = <<>> THEN <<>> ELSE Tail(queue)
              app == SubSeq(queue', Len(old) + 1, Len(queue'))
          IN  /\ \A k \in DOMAIN visited :
                    k \in DOMAIN visited' /\ visited'[k] = visited[k]
              /\ Len(queue') >= Len(old)
              /\ SubSeq(queue', 1, Len(old)) = old
              /\ NoRepeat(app)
              /\ Keys(app) = DOMAIN visited' \ DOMAIN visited]_vars

C16_Witness ==
    /\ Finished
    /\ Cardinality(DOMAIN visited) = 6
    /\ \E k \in DOMAIN visited : visited[k].dist = 3

\* C17: the recorded distances of the queue never decrease from front to
\* back and its last exceeds its first by at most 1; each vertex dequeued
\* has a distance at least that of the one dequeued before it.
C17_QueueIsInDistanceOrder ==
    /\ [](/\ \A i \in 1..(Len(queue) - 1) :
                visited[queue[i]].dist <= visited[queue[i + 1]].dist
          /\ queue # <<>> =>
                visited[queue[Len(queue)]].dist <= visited[queue[1]].dist + 1)
    /\ [][(vertex_key # None /\ vertex_key' # vertex_key) =>
              visited[vertex_key[1]].dist <= visited'[vertex_key'[1]].dist]_vars

C17_Witness ==
    /\ Len(queue) >= 2
    /\ visited[queue[Len(queue)]].dist = visited[queue[1]].dist + 1
    /\ vertex_key # None
    /\ visited[vertex_key[1]].dist = visited[queue[1]].dist

\* C18: the goal is dequeued at most once: once fewest_moves is set, the
\* goal's key is never in the queue again, and no later step changes
\* fewest_moves, best_path or the goal's record.
C18_GoalIsSettledOnce ==
    /\ [](fewest_moves # None => goal_key \notin Keys(queue))
    /\ [][fewest_moves # None =>
              /\ fewest_moves' = fewest_moves
              /\ best_path' = best_path
              /\ goal_key \in DOMAIN visited'
              /\ visited'[goal_key] = visited[goal_key]]_vars

C18_Witness ==
    /\ fewest_moves # None
    /\ vertex_key # None
    /\ vertex_key[1] # goal_key
    /\ visited[vertex_key[1]].dist > fewest_moves[1]
    /\ \E k \in 0..(Len(goal) - 1) : make_vertex_key(flip(goal, k)) = vertex_key[1]

\* C19: for a valid start of length n, every vertex recorded in visited, and
\* so every vertex of the queue, is a valid arrangement of length n in the
\* mode of the graph, stored under its own key.
C19_EveryVertexIsAnArrangement ==
    ValidVertex(start, burnt) =>
        /\ \A k \in DOMAIN visited :
              /\ Len(visited[k].name) = Len(start)
              /\ ValidVertex(visited[k].name, burnt)
        /\ Keys(queue) \subseteq DOMAIN visited
        /\ \A i \in 1..Len(queue) :
              make_vertex_key(visited[queue[i]].name) = queue[i]

C19_Witness ==
    /\ ValidVertex(start, burnt)
    /\ Len(start) = 3
    /\ Cardinality(DOMAIN visited) = 6
    /\ queue # <<>>

\* C11: whenever Game.__init__ has returned, at the start and after every
\* re-initialisation, the exact search has been run exactly when
\* BFS_eligible(): if so fewest_moves is an integer and best_path is not
\* empty, if not fewest_moves is None and best_path is empty.
C11_SearchedExactlyWhenEligible ==
    Ready =>
        IF BFS_eligible(game)
        THEN /\ pc = "done"
             /\ fewest_moves # None
             /\ fewest_moves[1] \in Nat
             /\ best_path # <<>>
        ELSE /\ pc = "new"
             /\ fewest_moves = None
             /\ best_path = <<>>
             /\ visited = <<>>

C11_Witness ==
    /\ Ready
    /\ game.stack_size = 3
    /\ ~game.burnt
    /\ fewest_moves # None
    /\ best_path # <<>>

\* C12: BFS_eligible() is true exactly for an unsigned stack of fewer than 8
\* pancakes and a signed stack of fewer than 6: it is true for 4 unsigned
\* pancakes and the signed ceiling is the smaller one.
C12_EligibleBelowTheCeilings ==
    LET sizes == [regular |-> 1..7, burned |-> 1..5]
        eligible(n, b) == BFS_eligible([stack_size |-> n, burnt |-> b])
    IN  /\ BFS_eligible(game) =
              (game.stack_size \in
                  (IF game.burnt THEN sizes.burned ELSE sizes.regular))
        /\ \A n \in 1..12 :
              /\ eligible(n, FALSE) = (n \in sizes.regular)
              /\ eligible(n, TRUE) = (n \in sizes.burned)
        /\ eligible(4, FALSE)
        /\ \E n \in 1..12 : eligible(n, FALSE) /\ ~eligible(n, TRUE)
        /\ \A n \in 1..12 : eligible(n, TRUE) => eligible(n, FALSE)

C12_Witness ==
    /\ Ready
    /\ game.burnt
    /\ game.stack_size = 6
    /\ ~BFS_eligible(game)
    /\ visited = <<>>

\* the arrangements one prefix reversal of mode b away from v
FlipsOf(v, b) ==
    {flip_loop(v, k, IF b THEN -1 ELSE 1, 0, <<>>) : k \in 0..(Len(v) - 1)}

RECURSIVE Farthest(_, _, _, _)
\* R holds what at most d flips reach from the first arrangement and last
\* what needs exactly d: the number of flips the farthest arrangement needs
\* and the number of arrangements reached
Farthest(R, last, d, b) ==
    LET more == UNION {FlipsOf(v, b) : v \in last} \ R
    IN  IF more = {} THEN [flips |-> d, reached |-> Cardinality(R)]
        ELSE Farthest(R \cup more, more, d + 1, b)

\* for each size and mode, the worst case over all starts: what the sorted
\* stack is farthest from is what is farthest from it, a flip undoing itself
WorstCase ==
    [n \in 1..MaxWorstN |->
        [regular |-> Farthest({range1(n)}, {range1(n)}, 0, FALSE),
         burned  |-> Farthest({range1(n)}, {range1(n)}, 0, TRUE)]]

NewGame(g) ==
    /\ g.goal_order = [i \in 1..g.stack_size |-> i]
    /\ Len(g.start_order) = g.stack_size
    /\ ValidVertex(g.start_order, g.burnt)
    /\ g.start_order # g.goal_order
    /\ g.current_order = g.start_order
    /\ g.moves = 0
    /\ g.game_over = FALSE

\* C20: a game being initialised, at the start or again, and the game that
\* __init__ returns have goal_order the identity 1..n, start_order a valid
\* arrangement of size n in the game's mode and different from goal_order,
\* current_order equal to start_order, moves 0 and game_over False; the graph
\* is made for this start and goal.
C20_NewGame ==
    /\ [](game.at # "main" =>
             /\ NewGame(game)
             /\ start = game.start_order
             /\ goal = game.goal_order
             /\ burnt = game.burnt)
    /\ [][(game.at # "main" /\ game'.at = "main") => NewGame(game')]_vars

C20_Witness ==
    /\ game.at = "init"
    /\ game.stack_size = 5
    /\ ~game.burnt
    /\ game.start_order = <<5, 4, 3, 2, 1>>

\* C21: from Game(4, True) on, whatever is added, removed, toggled or
\* restarted, 1 <= stack_size <= 12 and a game that is not burnt has at
\* least 2 pancakes: DIAMETER has an entry for every game that shows it, and
\* no game of 1 pancake that is not burnt is made.
C21_StackSizeInRange ==
    /\ game.stack_size \in 1..12
    /\ ~game.burnt => game.stack_size >= 2
    /\ game.stack_size \in DOMAIN DIAMETER
    /\ ~BFS_eligible(game) => shown_moves[1] \in Nat
    /\ Len(game.start_order) = game.stack_size

C21_Witness ==
    /\ Ready
    /\ game.stack_size = 12
    /\ ~game.burnt
    /\ shown_moves = Some(14)

\* the game after a frame with a click on the i-th sprite of pancake_list
Clicked(i) ==
    run_logic_flip([game EXCEPT !.moves = @ + 1], game.pancake_list[i].loc + 1)

\* C22: a click on a side of the pancake at position loc (0 the top) leaves
\* current_order as Graph.flip(current_order, loc) returns it in the game's
\* mode, the first loc + 1 entries reversed, and negated when burnt, and
\* the others as they were, and adds exactly 1 to moves, also when the top
\* pancake of a stack that is not burnt is clicked and the order stays.
C22_ClickIsFlip ==
    [][game'.moves = game.moves + 1 =>
          /\ \E i \in 1..Len(game.pancake_list) : game' = Clicked(i)
          /\ \A i \in 1..Len(game.pancake_list) :
                game' = Clicked(i) =>
                    LET loc == game.pancake_list[i].loc
                    IN  /\ game'.current_order = flip(game.current_order, loc)
                        /\ \A j \in 1..game.stack_size :
                              game'.current_order[j] =
                                  IF j <= loc + 1
                                  THEN (IF game.burnt THEN -1 ELSE 1)
                                       * game.current_order[loc + 2 - j]
                                  ELSE game.current_order[j]
                        /\ (~game.burnt /\ loc = 0) =>
                              game'.current_order = game.current_order]_vars

C22_Witness ==
    /\ Ready
    /\ game.burnt
    /\ game.stack_size = 4
    /\ game.moves = 2
    /\ game.start_order = <<-2, 1, 3, 4>>
    /\ game.current_order = <<3, -1, 2, 4>>

\* C23: in every state with game_over true and BFS_eligible(), moves is at
\* least pancake_graph.fewest_moves, the number shown as the fewest possible
\* moves: no clicks and resets win in fewer.
C23_NoWinBelowFewestMoves ==
    (game.game_over /\ BFS_eligible(game)) =>
        /\ fewest_moves # None
        /\ shown_moves = fewest_moves
        /\ game.moves >= fewest_moves[1]

C23_Witness ==
    /\ game.game_over
    /\ BFS_eligible(game)
    /\ game.burnt
    /\ game.start_order = <<-2, 1, 3, 4>>
    /\ fewest_moves = Some(2)
    /\ game.moves = 2

\* C24: after every frame game_over is true exactly when current_order is
\* goal_order; once it is true the only step there is makes a new game of
\* the same stack_size and mode, so no flip, count of a move or button is
\* applied to the game that was won.
C24_GameOverIffSorted ==
    /\ [](game.game_over <=> game.current_order = game.goal_order)
    /\ [][game.game_over =>
              /\ game'.at = "init"
              /\ game'.stack_size = game.stack_size
              /\ game'.burnt = game.burnt
              /\ game'.moves = 0
              /\ game'.game_over = FALSE
              /\ game'.current_order = game'.start_order
              /\ pc' = "new"]_vars

C24_Witness ==
    /\ game.game_over
    /\ game.current_order = game.goal_order
    /\ game.stack_size = 4
    /\ game.burnt
    /\ game.start_order = <<-1, 2, 3, 4>>
    /\ game.moves = 1

\* C25: a reset after any clicks sets moves to 0 and current_order to
\* start_order and leaves start_order, goal_order, stack_size, burnt and the
\* graph with its fewest_moves and best_path as they were; no frame of a
\* game, so no click on a pancake, changes start_order or goal_order.
C25_ResetRestoresTheStart ==
    /\ [][(game'.at = "main" /\ reset_stack) =>
              /\ game'.moves = 0
              /\ game'.current_order = game.start_order
              /\ game'.start_order = game.start_order
              /\ game'.goal_order = game.goal_order
              /\ game'.stack_size = game.stack_size
              /\ game'.burnt = game.burnt
              /\ game'.game_over = FALSE
              /\ fewest_moves' = fewest_moves
              /\ best_path' = best_path
              /\ visited' = visited
              /\ <<start, goal, burnt>>' = <<start, goal, burnt>>]_vars
    /\ [][(game.at = "main" /\ game'.at = "main") =>
              /\ game'.start_order = game.start_order
              /\ game'.goal_order = game.goal_order
              /\ game'.stack_size = game.stack_size
              /\ game'.burnt = game.burnt]_vars

C25_Witness ==
    /\ Ready
    /\ game.moves = 0
    /\ game.current_order = game.start_order
    /\ game.stack_size = 3
    /\ ~game.burnt
    /\ fewest_moves # None

==========================================================================
